---- MODULE Spec2Model ----
(***************************************************************************)
(* Model of the credit-policy pipeline of bookkeeping-tools:               *)
(*   src/tools/ap_report/ap_workflow.py   process_invoices                 *)
(*   src/tools/ap_report/streamlit_app.py the harness that loads the       *)
(*                                        upload and calls the pipeline    *)
(*                                                                         *)
(* Numbers.  Money is kept in cents, Relative_Impact in hundredths of a    *)
(* percent, wacc in hundredths (the step of the sidebar input), so that    *)
(* the two-decimal roundings of the code are integer roundings here.       *)
(* Rounding is round-half-to-even on the exact quotient (numpy's and       *)
(* Python's round); binary floating-point representation error is not      *)
(* modelled.                                                               *)
(***************************************************************************)
EXTENDS Integers, Sequences, FiniteSets

(* ------------------------------------------------------------------ *)
(* Bounds                                                             *)
(* ------------------------------------------------------------------ *)
MaxRows == 2
MaxRuns == 2

(* ------------------------------------------------------------------ *)
(* Column names: a name is a sequence of tokens (words, " " and "_")  *)
(* ------------------------------------------------------------------ *)
Fields == {"Contact", "Invoice_Date", "Due_Date", "Last_Payment_Date", "Status", "Invoice_Total"}

Words(f) ==
  CASE f = "Contact"           -> <<"Contact">>
    [] f = "Invoice_Date"      -> <<"Invoice", "Date">>
    [] f = "Due_Date"          -> <<"Due", "Date">>
    [] f = "Last_Payment_Date" -> <<"Last", "Payment", "Date">>
    [] f = "Status"            -> <<"Status">>
    [] f = "Invoice_Total"     -> <<"Invoice", "Total">>

RECURSIVE Join(_, _)
Join(ws, sep) ==
  IF Len(ws) <= 1 THEN ws ELSE <<Head(ws), sep>> \o Join(Tail(ws), sep)

\* the literal column names the pipeline looks up
Key(f) == Join(Words(f), "_")

\* header spellings of the upload: the template's, Xero's, and Xero's with stray blanks
HeaderStyles == {"underscore", "spaced", "padded"}

Header(style, f) ==
  CASE style = "underscore" -> Join(Words(f), "_")
    [] style = "spaced"     -> Join(Words(f), " ")
    [] style = "padded"     -> <<" ">> \o Join(Words(f), " ") \o <<" ">>

RECURSIVE LStrip(_)
LStrip(n) == IF n # <<>> /\ Head(n) = " " THEN LStrip(Tail(n)) ELSE n

RECURSIVE RStrip(_)
RStrip(n) ==
  IF n # <<>> /\ n[Len(n)] = " " THEN RStrip(SubSeq(n, 1, Len(n) - 1)) ELSE n

Strip(n) == LStrip(RStrip(n))

Replace(n, old, new) == [i \in 1..Len(n) |-> IF n[i] = old THEN new ELSE n[i]]

CleanName(n) == Replace(Strip(n), " ", "_")

(* ------------------------------------------------------------------ *)
(* Cells                                                              *)
(* ------------------------------------------------------------------ *)
\* a date cell: text in the '%d %b %Y' format, any other content (blank,
\* another format), a datetime64 value, or NaT
Text(d) == [k |-> "text", d |-> d]
Other   == [k |-> "other", d |-> 0]
Dt(d)   == [k |-> "dt", d |-> d]
NaT     == [k |-> "nat", d |-> 0]

\* to_datetime that parses the text of every value: a datetime64 value prints
\* as '2025-01-11 00:00:00', which is not in the '%d %b %Y' format
to_datetime_reparsed(c) ==
  CASE c.k = "text"  -> Dt(c.d)
    [] c.k = "other" -> NaT
    [] c.k = "dt"    -> NaT
    [] c.k = "nat"   -> c

to_datetime(c) ==
  CASE c.k = "text"  -> Dt(c.d)
    [] c.k = "other" -> NaT
    [] c.k = "dt"    -> c
    [] c.k = "nat"   -> c

\* dropna: only NaT is missing in a converted (datetime64) column
IsNa(c) == c.k = "nat"

(* ------------------------------------------------------------------ *)
(* DataFrames: names of the columns and the rows, a row being a       *)
(* function from the column slots to cells                            *)
(* ------------------------------------------------------------------ *)
HasColumn(df, key) == \E f \in DOMAIN df.names : df.names[f] = key

Col(df, key) == CHOOSE f \in DOMAIN df.names : df.names[f] = key

\* line 179: df.columns = df.columns.str.strip().str.replace(' ', '_')
CleanColumns(df) == [df EXCEPT !.names = [f \in DOMAIN df.names |-> CleanName(df.names[f])]]

\* the Paid filter that keeps every record
FilterPaidKeepsAll(df) == df

\* line 183: df[df['Status'] == 'Paid']
FilterPaid(df) ==
  LET s == Col(df, Key("Status"))
      Keep(r) == r[s] = "Paid"
  IN  [df EXCEPT !.rows = SelectSeq(df.rows, Keep)]

date_columns == <<"Invoice_Date", "Due_Date", "Last_Payment_Date">>

\* line 196: df[col] = pd.to_datetime(df[col], errors='coerce', format='%d %b %Y')
ConvertColumn(df, key) ==
  IF HasColumn(df, key)
  THEN LET c == Col(df, key)
       IN  [df EXCEPT !.rows = [i \in 1..Len(df.rows) |->
                                  [df.rows[i] EXCEPT ![c] = to_datetime(@)]]]
  ELSE df

RECURSIVE ConvertDates(_, _)
ConvertDates(df, i) ==
  IF i > Len(date_columns) THEN df
  ELSE ConvertDates(ConvertColumn(df, Key(date_columns[i])), i + 1)

\* dropna over both dates of the lateness: subset=['Last_Payment_Date', 'Due_Date']
DropNaAnyDate(df) ==
  LET c == Col(df, Key("Last_Payment_Date"))
      d == Col(df, Key("Due_Date"))
      Keep(r) == ~IsNa(r[c]) /\ ~IsNa(r[d])
  IN  [df EXCEPT !.rows = SelectSeq(df.rows, Keep)]

\* line 202: df.dropna(subset=['Last_Payment_Date'])
DropNa(df) ==
  LET c == Col(df, Key("Last_Payment_Date"))
      Keep(r) == ~IsNa(r[c])
  IN  [df EXCEPT !.rows = SelectSeq(df.rows, Keep)]

(* ------------------------------------------------------------------ *)
(* Arithmetic                                                         *)
(* ------------------------------------------------------------------ *)
\* round(n / d) to an integer, halves to the even neighbour (n >= 0, d > 0)
RoundHalfEven(n, d) ==
  LET q == n \div d
      r == n % d
  IN  IF 2 * r < d THEN q
      ELSE IF 2 * r > d THEN q + 1
      ELSE IF q % 2 = 0 THEN q ELSE q + 1

\* np.ceil(n / d) for d > 0
Ceil(n, d) == -((-n) \div d)

ClipUpper(x, upper) == IF x > upper THEN upper ELSE x

ClipLower(x, lower) == IF x < lower THEN lower ELSE x

RECURSIVE SumSeq(_)
SumSeq(s) == IF s = <<>> THEN 0 ELSE Head(s) + SumSeq(Tail(s))

RECURSIVE MaxSeq(_)
MaxSeq(s) ==
  IF Len(s) = 1 THEN s[1]
  ELSE LET m == MaxSeq(Tail(s)) IN IF Head(s) > m THEN Head(s) ELSE m

RECURSIVE Insert(_, _)
Insert(x, s) ==
  IF s = <<>> THEN <<x>>
  ELSE IF x <= Head(s) THEN <<x>> \o s
  ELSE <<Head(s)>> \o Insert(x, Tail(s))

RECURSIVE SortValues(_)
SortValues(s) == IF s = <<>> THEN <<>> ELSE Insert(Head(s), SortValues(Tail(s)))

(* ------------------------------------------------------------------ *)
(* Step 3: lateness of each record (lines 204-216)                    *)
(* ------------------------------------------------------------------ *)
\* lateness with >= in place of >
IsLateOrOnDueDate(last_payment, due) ==
  last_payment.k = "dt" /\ due.k = "dt" /\ last_payment.d >= due.d

\* line 204: a comparison with NaT is False
IsLate(last_payment, due) ==
  last_payment.k = "dt" /\ due.k = "dt" /\ last_payment.d > due.d

\* lines 205-209
DaysLate(last_payment, due) ==
  IF IsLate(last_payment, due) THEN last_payment.d - due.d ELSE 0

\* the late impact cut to two decimals instead of rounded
LateImpactTruncated(last_payment, due, total, cfg) ==
  IF IsLate(last_payment, due)
  THEN (DaysLate(last_payment, due) * total * cfg.wacc) \div cfg.days_in_year
  ELSE 0

\* lines 210-216, in cents: days * total * wacc * (1/days_in_year), .round(2)
LateImpact(last_payment, due, total, cfg) ==
  IF IsLate(last_payment, due)
  THEN RoundHalfEven(DaysLate(last_payment, due) * total * cfg.wacc, cfg.days_in_year)
  ELSE 0

Enrich(df, cfg) ==
  LET lp  == Col(df, Key("Last_Payment_Date"))
      due == Col(df, Key("Due_Date"))
      tot == Col(df, Key("Invoice_Total"))
      con == Col(df, Key("Contact"))
  IN  [i \in 1..Len(df.rows) |->
        LET r == df.rows[i]
        IN  [Contact       |-> r[con],
             Invoice_Total |-> r[tot],
             Is_Late       |-> IsLate(r[lp], r[due]),
             Days_Late     |-> DaysLate(r[lp], r[due]),
             Late_Impact   |-> LateImpact(r[lp], r[due], r[tot], cfg)]]

(* ------------------------------------------------------------------ *)
(* Step 4: one row per contact (lines 220-224)                        *)
(* ------------------------------------------------------------------ *)
\* the contacts of the model, in the order groupby sorts its keys
ContactOrder == <<"Acme", "Bolt">>

Contacts == {ContactOrder[i] : i \in 1..Len(ContactOrder)}

OfContact(rows, c) == LET Keep(r) == r.Contact = c IN SelectSeq(rows, Keep)

Amounts(rows) == [i \in 1..Len(rows) |-> rows[i].Invoice_Total]

Impacts(rows) == [i \in 1..Len(rows) |-> rows[i].Late_Impact]

Lates(rows) == [i \in 1..Len(rows) |-> IF rows[i].Is_Late THEN 1 ELSE 0]

RECURSIVE GroupBy(_, _)
GroupBy(rows, i) ==
  IF i > Len(ContactOrder) THEN <<>>
  ELSE LET g == OfContact(rows, ContactOrder[i])
       IN  (IF g = <<>> THEN <<>>
            ELSE <<[Contact                    |-> ContactOrder[i],
                    Total_Invoice_Sum          |-> SumSeq(Amounts(g)),
                    Late_Payment_Impact_Amount |-> SumSeq(Impacts(g)),
                    Number_of_Delays           |-> SumSeq(Lates(g))]>>)
           \o GroupBy(rows, i + 1)

(* ------------------------------------------------------------------ *)
(* Step 5: high-value classification (lines 227-232)                  *)
(* ------------------------------------------------------------------ *)
Sums(cdf) == [i \in 1..Len(cdf) |-> cdf[i].Total_Invoice_Sum]

\* 100 * Series.quantile(q) with linear interpolation between the order
\* statistics, q given in percent; values is not empty
Quantile100(values, qpct) ==
  LET v  == SortValues(values)
      h  == (Len(v) - 1) * qpct
      lo == h \div 100
      fr == h % 100
  IN  IF fr = 0 THEN 100 * v[lo + 1]
      ELSE 100 * v[lo + 1] + fr * (v[lo + 2] - v[lo + 1])

\* line 227: quantile(1 - top_clients_cutoff), top_clients_cutoff in percent
Threshold100(cdf, cfg) == Quantile100(Sums(cdf), 100 - cfg.top_clients_cutoff)

\* lines 228-232
HighValue(total, threshold100) == IF 100 * total >= threshold100 THEN "Yes" ELSE "No"

(* ------------------------------------------------------------------ *)
(* Step 6: impact analysis (lines 235-240)                            *)
(* ------------------------------------------------------------------ *)
AllImpacts(cdf) == [i \in 1..Len(cdf) |-> cdf[i].Late_Payment_Impact_Amount]

\* lines 236-238, in hundredths of a percent
RelativeImpact(x, max_impact) ==
  IF max_impact > 0 THEN RoundHalfEven(x * 10000, max_impact) ELSE 0

\* the late fee from the first delay on
LateFeeFromFirstDelay(delays) == delays > 0

\* line 240
LateFeeApplicable(delays) == delays > 1

(* ------------------------------------------------------------------ *)
(* Step 7: credit terms (lines 243-255)                               *)
(* ------------------------------------------------------------------ *)
\* the reduction rounded up to whole days, not to multiples of 5
ReductionInWholeDays(rel, delays, credit_terms) ==
  ClipUpper(Ceil(rel * delays, 10000), credit_terms)

\* lines 243-249: ceil((Relative_Impact * Number_of_Delays * (1/100)) / 5) * 5,
\* clipped to the credit terms; rel is in hundredths of a percent
ReductionInTermDays(rel, delays, credit_terms) ==
  ClipUpper(Ceil(rel * delays, 50000) * 5, credit_terms)

\* the reduction added to the credit terms
RevisedCreditTermsExtended(credit_terms, reduction) == ClipLower(credit_terms + reduction, 0)

\* lines 252-255
RevisedCreditTerms(credit_terms, reduction) == ClipLower(credit_terms - reduction, 0)

(* ------------------------------------------------------------------ *)
(* Step 8: risk and schedule (lines 258-267)                          *)
(* ------------------------------------------------------------------ *)
\* the two conditions of the risk joined by | in place of &
RiskOfEither(high_value, delays) == IF high_value = "No" \/ delays > 0 THEN "High" ELSE "Normal"

RiskOf(high_value, delays) == IF high_value = "No" /\ delays > 0 THEN "High" ELSE "Normal"

ScheduleOf(risk, high_value, cfg) ==
  IF risk = "High" /\ high_value = "No" THEN cfg.intense_schedule ELSE cfg.normal_schedule

\* steps 5 to 8 on a contact table that has rows
Derive(cdf, cfg) ==
  LET thr == Threshold100(cdf, cfg)
      mx  == MaxSeq(AllImpacts(cdf))
  IN  [i \in 1..Len(cdf) |->
        LET c   == cdf[i]
            hv  == HighValue(c.Total_Invoice_Sum, thr)
            rel == RelativeImpact(c.Late_Payment_Impact_Amount, mx)
            red == ReductionInTermDays(rel, c.Number_of_Delays, cfg.credit_terms)
            rsk == RiskOf(hv, c.Number_of_Delays)
        IN  [Contact                    |-> c.Contact,
             Total_Invoice_Sum          |-> c.Total_Invoice_Sum,
             Late_Payment_Impact_Amount |-> c.Late_Payment_Impact_Amount,
             Number_of_Delays           |-> c.Number_of_Delays,
             High_Value                 |-> hv,
             Relative_Impact            |-> rel,
             Late_Fee_Applicable        |-> LateFeeApplicable(c.Number_of_Delays),
             Reduction_in_Term_Days     |-> red,
             Revised_Credit_Terms       |-> RevisedCreditTerms(cfg.credit_terms, red),
             Risk                       |-> rsk,
             Schedule                   |-> ScheduleOf(rsk, hv, cfg)]]

\* lines 269-274: contact_df[output_columns]
OutputColumns(cdf) ==
  [i \in 1..Len(cdf) |->
    [Contact                |-> cdf[i].Contact,
     High_Value             |-> cdf[i].High_Value,
     Late_Fee_Applicable    |-> cdf[i].Late_Fee_Applicable,
     Number_of_Delays       |-> cdf[i].Number_of_Delays,
     Reduction_in_Term_Days |-> cdf[i].Reduction_in_Term_Days,
     Revised_Credit_Terms   |-> cdf[i].Revised_Credit_Terms,
     Risk                   |-> cdf[i].Risk,
     Schedule               |-> cdf[i].Schedule]]

(* ------------------------------------------------------------------ *)
(* Outcomes of a call                                                 *)
(* ------------------------------------------------------------------ *)
Returned(t) == [kind |-> "return", cls |-> "", msg |-> "", table |-> t]

Raised(c, m) == [kind |-> "raise", cls |-> c, msg |-> m, table |-> <<>>]

\* line 188
NoPaidMessage == "No paid invoices found after filtering - check your Status column values"

\* the validation after the Paid filter left out
NoneLeftUnchecked(df) == FALSE

\* line 187: the validation after the Paid filter
NoneLeft(df) == Len(df.rows) = 0

\* lines 243-246 on a contact table without rows.  DataFrame.apply(axis=1)
\* of an empty frame gives, depending on the pandas release, a copy of the
\* frame (assigning it to one column raises ValueError) or an empty Series
\* (the pipeline goes on and returns a table without rows).
PandasBuilds == {"apply_gives_frame", "apply_gives_series"}

SetColumnMessage == "Cannot set a DataFrame with multiple columns to the single column Reduction_in_Term_Days"

EmptyOutcome(build) ==
  IF build = "apply_gives_frame" THEN Raised("ValueError", SetColumnMessage)
  ELSE Returned(<<>>)

\* process_invoices with the validation of line 187 moved out of the
\* 'Status' branch: it runs whether or not the filter ran
process_invoices_validating(table, cfg, build) ==
  LET cleaned   == CleanColumns(table)
      hasStatus == HasColumn(cleaned, Key("Status"))
      paid      == IF hasStatus THEN FilterPaid(cleaned) ELSE cleaned
  IN  IF NoneLeft(paid)
      THEN [caller |-> cleaned, df |-> <<>>, contact_df |-> <<>>,
            result |-> Raised("ValueError", NoPaidMessage)]
      ELSE LET converted == ConvertDates(paid, 1)
               caller    == IF hasStatus THEN cleaned ELSE converted
               enriched  == Enrich(DropNa(converted), cfg)
               grouped   == GroupBy(enriched, 1)
           IN  IF grouped = <<>>
               THEN [caller |-> caller, df |-> enriched, contact_df |-> <<>>,
                     result |-> EmptyOutcome(build)]
               ELSE LET cdf == Derive(grouped, cfg)
                    IN  [caller |-> caller, df |-> enriched, contact_df |-> cdf,
                         result |-> Returned(OutputColumns(cdf))]

(* ------------------------------------------------------------------ *)
(* process_invoices (lines 166-274): the caller's table as the call   *)
(* leaves it, the locals df and contact_df, and the outcome           *)
(* ------------------------------------------------------------------ *)
process_invoices(table, cfg, build) ==
  LET cleaned   == CleanColumns(table)
      hasStatus == HasColumn(cleaned, Key("Status"))
      paid      == IF hasStatus THEN FilterPaid(cleaned) ELSE cleaned
  IN  IF hasStatus /\ NoneLeft(paid)
      THEN [caller |-> cleaned, df |-> <<>>, contact_df |-> <<>>,
            result |-> Raised("ValueError", NoPaidMessage)]
      ELSE LET converted == ConvertDates(paid, 1)
               \* the boolean filter copies; without it df still is the caller's object
               caller    == IF hasStatus THEN cleaned ELSE converted
               enriched  == Enrich(DropNa(converted), cfg)
               grouped   == GroupBy(enriched, 1)
           IN  IF grouped = <<>>
               THEN [caller |-> caller, df |-> enriched, contact_df |-> <<>>,
                     result |-> EmptyOutcome(build)]
               ELSE LET cdf == Derive(grouped, cfg)
                    IN  [caller |-> caller, df |-> enriched, contact_df |-> cdf,
                         result |-> Returned(OutputColumns(cdf))]

(* ------------------------------------------------------------------ *)
(* Inputs                                                             *)
(* ------------------------------------------------------------------ *)
\* dates are day numbers: 1 is 01 Jan 2025, 11 is 11 Jan 2025
\* (Status, Due_Date, Last_Payment_Date, Invoice_Total) of the modelled records
Payments ==
  { <<"Paid",  Text(1), Text(1),  1000>>,
    <<"Paid",  Text(1), Text(1),  500>>,
    <<"Paid",  Text(1), Text(11), 1000>>,
    <<"Paid",  Text(1), Text(11), 500>>,
    <<"Paid",  Text(1), Other,         1000>>,
    <<"Paid",  Other,        Text(11), 1000>>,
    <<"Draft", Text(1), Text(11), 1000>> }

Records ==
  { [Contact |-> c, Invoice_Date |-> Text(1), Due_Date |-> p[2],
     Last_Payment_Date |-> p[3], Status |-> p[1], Invoice_Total |-> p[4]] :
    c \in Contacts, p \in Payments }

\* the sheets: with or without a Status column
Sheets ==
  { <<"underscore", Fields>>, <<"spaced", Fields>>,
    <<"underscore", Fields \ {"Status"}>>, <<"padded", Fields \ {"Status"}>> }

ReadExcel(sheet, records) ==
  [names |-> [f \in sheet[2] |-> Header(sheet[1], f)],
   rows  |-> [i \in 1..Len(records) |-> [f \in sheet[2] |-> records[i][f]]]]

Uploads ==
  { ReadExcel(sheet, records) :
      sheet \in Sheets, records \in UNION { [1..n -> Records] : n \in 0..MaxRows } }

IntenseLabel == "Intense: Reminders in -7, -1, +1, and then every 7 Days from Due Date"

NormalLabel == "Normal: Reminders in -1, and then every 15 Days from Due Date"

\* sidebar values: credit terms in days, wacc in hundredths, cutoff in percent
Config(credit, wacc, days, cutoff) ==
  [credit_terms |-> credit, wacc |-> wacc, days_in_year |-> days,
   top_clients_cutoff |-> cutoff,
   intense_schedule |-> IntenseLabel, normal_schedule |-> NormalLabel]

Configs ==
  { Config(30, 10, 360, 25), Config(3, 10, 360, 25),
    Config(0, 10, 365, 50),  Config(30, 0, 360, 100) }

(* ------------------------------------------------------------------ *)
(* State                                                              *)
(* ------------------------------------------------------------------ *)
VARIABLES
  uploaded_file,  \* content of the uploaded workbook
  df,             \* the caller's DataFrame object (streamlit_app.py line 129)
  config,         \* the sidebar configuration
  pandas,         \* the pandas release the program runs on
  runs,           \* calls of process_invoices so far
  result,         \* outcome of the latest call
  first,          \* outcome of the first call
  invoices,       \* the local df of the latest call, with its lateness columns
  contact_df      \* the local contact_df of the latest call, all columns

vars == <<uploaded_file, df, config, pandas, runs, result, first, invoices, contact_df>>

NotRun == [kind |-> "none", cls |-> "", msg |-> "", table |-> <<>>]

Init ==
  /\ uploaded_file \in Uploads
  /\ df = uploaded_file
  /\ config \in Configs
  /\ pandas \in PandasBuilds
  /\ runs = 0
  /\ result = NotRun
  /\ first = NotRun
  /\ invoices = <<>>
  /\ contact_df = <<>>

\* the script reads the upload again: a fresh table with the same content
Reload ==
  /\ runs > 0
  /\ df' = uploaded_file
  /\ UNCHANGED <<uploaded_file, config, pandas, runs, result, first, invoices, contact_df>>

\* a call of process_invoices on the caller's table
Process ==
  /\ runs < MaxRuns
  /\ \E out \in {process_invoices(df, config, pandas)} :
         /\ df' = out.caller
         /\ result' = out.result
         /\ first' = IF runs = 0 THEN out.result ELSE first
         /\ invoices' = out.df
         /\ contact_df' = out.contact_df
  /\ runs' = runs + 1
  /\ UNCHANGED <<uploaded_file, config, pandas>>

Next == Reload \/ Process

Spec == Init /\ [][Next]_vars

(* ------------------------------------------------------------------ *)
(* The upload as the claims describe it                               *)
(* ------------------------------------------------------------------ *)
UploadHasStatus == "Status" \in DOMAIN uploaded_file.names

UploadRows == {uploaded_file.rows[i] : i \in 1..Len(uploaded_file.rows)}

IsPaid(r) == r["Status"] = "Paid"

\* the date text can be parsed
Parseable(c) == c.k = "text"

\* the record passes the Paid filter and has a payment date
Survives(r) == (UploadHasStatus => IsPaid(r)) /\ Parseable(r["Last_Payment_Date"])

\* paid after the due date
PaidLate(r) ==
  /\ Parseable(r["Last_Payment_Date"])
  /\ Parseable(r["Due_Date"])
  /\ r["Last_Payment_Date"].d > r["Due_Date"].d

OutputRows == {result.table[i] : i \in 1..Len(result.table)}

(* ------------------------------------------------------------------ *)
(* C1: whenever process_invoices returns a table (credit terms >= 0), *)
(* every row's Revised_Credit_Terms lies between 0 and the credit     *)
(* terms, both included.                                              *)
(* ------------------------------------------------------------------ *)
RevisedTermsWithinCreditTerms ==
  result.kind = "return" =>
    \A r \in OutputRows :
      r.Revised_Credit_Terms >= 0 /\ r.Revised_Credit_Terms <= config.credit_terms

\* a returned row whose terms were reduced but not to zero
RevisedTermsReduced ==
  /\ result.kind = "return"
  /\ \E r \in OutputRows :
       /\ r.Reduction_in_Term_Days > 0
       /\ r.Revised_Credit_Terms > 0
       /\ r.Revised_Credit_Terms < config.credit_terms

(* ------------------------------------------------------------------ *)
(* C2 as stated: every row's Reduction_in_Term_Days is a non-negative *)
(* multiple of 5 and at most the credit terms, also when the credit   *)
(* terms are not a multiple of 5.                                     *)
(* ------------------------------------------------------------------ *)
ReductionIsMultipleOfFive ==
  result.kind = "return" =>
    \A r \in OutputRows :
      /\ r.Reduction_in_Term_Days >= 0
      /\ r.Reduction_in_Term_Days % 5 = 0
      /\ r.Reduction_in_Term_Days <= config.credit_terms

(* C2 amended: every row's Reduction_in_Term_Days is non-negative and *)
(* at most the credit terms, and it is a multiple of 5 unless the cap *)
(* applied, in which case it equals the credit terms.                 *)
ReductionIsMultipleOfFiveOrCapped ==
  result.kind = "return" =>
    \A r \in OutputRows :
      /\ r.Reduction_in_Term_Days >= 0
      /\ r.Reduction_in_Term_Days <= config.credit_terms
      /\ \/ r.Reduction_in_Term_Days % 5 = 0
         \/ r.Reduction_in_Term_Days = config.credit_terms

\* a reduction that the cap cut to credit terms that are no multiple of 5
ReductionCapped ==
  /\ result.kind = "return"
  /\ config.credit_terms % 5 # 0
  /\ \E r \in OutputRows :
       r.Number_of_Delays > 0 /\ r.Reduction_in_Term_Days = config.credit_terms

(* ------------------------------------------------------------------ *)
(* C3: in every output row Risk is High exactly when the contact is   *)
(* not high-value and has a delay; so a high-value contact never has  *)
(* Risk High.                                                         *)
(* ------------------------------------------------------------------ *)
RiskHighIffLateAndNotHighValue ==
  result.kind = "return" =>
    \A r \in OutputRows :
      /\ (r.Risk = "High") <=> (r.High_Value = "No" /\ r.Number_of_Delays > 0)
      /\ r.Risk \in {"High", "Normal"}
      /\ r.High_Value = "Yes" => r.Risk = "Normal"

\* a high-value contact with delays next to a High-risk contact
HighValueLateContactNormal ==
  /\ result.kind = "return"
  /\ \E r \in OutputRows :
       r.High_Value = "Yes" /\ r.Number_of_Delays > 0 /\ r.Risk = "Normal"
  /\ \E r \in OutputRows : r.Risk = "High"

(* ------------------------------------------------------------------ *)
(* C4 as stated: with a Status column and no record whose Status is   *)
(* "Paid", the call fails with a NoPaidInvoicesError, distinct from   *)
(* the generic validation error, and returns no table.                *)
(* ------------------------------------------------------------------ *)
NoPaidRecord == UploadHasStatus /\ \A r \in UploadRows : ~IsPaid(r)

NoPaidRecordHasPaymentDate ==
  /\ UploadHasStatus
  /\ \E r \in UploadRows : IsPaid(r)
  /\ \A r \in UploadRows : IsPaid(r) => ~Parseable(r["Last_Payment_Date"])

NoPaymentDateRaisesEmptyAfterDateFilterError ==
  (runs > 0 /\ NoPaidRecordHasPaymentDate) =>
    /\ result.kind = "raise"
    /\ result.cls = "EmptyAfterDateFilterError"

(* ------------------------------------------------------------------ *)
(* C6: a second call with the same configuration gives the outcome of *)
(* the first, on a fresh copy of the table and on the very table      *)
(* object the first call was given.                                   *)
(* ------------------------------------------------------------------ *)
SecondRunSameOutput == runs >= 2 => result = first

\* a second call that returned rows from the object the first call had
\* converted in place
SecondRunOnConvertedTable ==
  /\ runs = 2
  /\ df # uploaded_file
  /\ ~UploadHasStatus
  /\ \E r \in UploadRows : Parseable(r["Last_Payment_Date"])
  /\ result.kind = "return"
  /\ result.table # <<>>

(* ------------------------------------------------------------------ *)
(* C7: a call leaves the caller's table as it was: the same column    *)
(* names and the same values, with and without a Status column.       *)
(* ------------------------------------------------------------------ *)
CallLeavesTableUnchanged == [][runs' # runs => df' = df]_vars

(* ------------------------------------------------------------------ *)
(* C8: in every output row Late_Fee_Applicable is true exactly when   *)
(* Number_of_Delays is greater than 1: false at 1, true at 2.         *)
(* ------------------------------------------------------------------ *)
LateFeeIffMoreThanOneDelay ==
  result.kind = "return" =>
    \A r \in OutputRows :
      /\ r.Late_Fee_Applicable <=> r.Number_of_Delays > 1
      /\ r.Number_of_Delays = 1 => r.Late_Fee_Applicable = FALSE
      /\ r.Number_of_Delays = 2 => r.Late_Fee_Applicable = TRUE

\* a contact with two late records
LateFeeAtTwoDelays ==
  /\ result.kind = "return"
  /\ \E r \in OutputRows :
       /\ r.Number_of_Delays = 2
       /\ r.Late_Fee_Applicable
       /\ Cardinality({i \in 1..Len(uploaded_file.rows) :
              /\ uploaded_file.rows[i]["Contact"] = r.Contact
              /\ Survives(uploaded_file.rows[i])
              /\ PaidLate(uploaded_file.rows[i])}) = 2

(* ------------------------------------------------------------------ *)
(* C9: when no surviving record is late, every contact of the output  *)
(* has no delay, no late impact, relative impact 0, no reduction, the *)
(* full credit terms and Risk Normal.                                 *)
(* ------------------------------------------------------------------ *)
NoSurvivorLate == \A r \in UploadRows : Survives(r) => ~PaidLate(r)

NothingLateNothingReduced ==
  (runs > 0 /\ NoSurvivorLate /\ result.kind = "return") =>
    /\ Len(result.table) = Len(contact_df)
    /\ \A i \in 1..Len(contact_df) :
         /\ contact_df[i].Number_of_Delays = 0
         /\ contact_df[i].Late_Payment_Impact_Amount = 0
         /\ contact_df[i].Relative_Impact = 0
         /\ contact_df[i].Reduction_in_Term_Days = 0
         /\ contact_df[i].Revised_Credit_Terms = config.credit_terms
         /\ contact_df[i].Risk = "Normal"
         /\ result.table[i].Number_of_Delays = 0
         /\ result.table[i].Reduction_in_Term_Days = 0
         /\ result.table[i].Revised_Credit_Terms = config.credit_terms
         /\ result.table[i].Risk = "Normal"

\* two contacts, all paid on the due date, one of them not high-value
TwoContactsNothingLate ==
  /\ runs > 0
  /\ NoSurvivorLate
  /\ result.kind = "return"
  /\ Len(contact_df) = 2
  /\ \E i \in 1..2 : contact_df[i].High_Value = "No"
  /\ config.credit_terms > 0

(* ------------------------------------------------------------------ *)
(* C10: one contact, two Paid invoices of 1000, each paid 10 days     *)
(* after its due date, wacc 0.10, 360 days, credit terms 30, cutoff   *)
(* 0.25.                                                              *)
(* ------------------------------------------------------------------ *)
AcmeScenario ==
  /\ Len(uploaded_file.rows) = 2
  /\ \A r \in UploadRows :
       /\ r["Contact"] = "Acme"
       /\ UploadHasStatus /\ IsPaid(r)
       /\ r["Invoice_Total"] = 1000
       /\ PaidLate(r)
       /\ r["Last_Payment_Date"].d - r["Due_Date"].d = 10
  /\ config = Config(30, 10, 360, 25)

AcmeAggregates(reduction, revised) ==
  /\ result.kind = "return"
  /\ Len(invoices) = 2
  /\ \A i \in 1..Len(invoices) : invoices[i].Late_Impact = 278
  /\ Len(contact_df) = 1
  /\ contact_df[1].Number_of_Delays = 2
  /\ contact_df[1].Late_Payment_Impact_Amount = 556
  /\ contact_df[1].Relative_Impact = 10000
  /\ contact_df[1].Reduction_in_Term_Days = reduction
  /\ contact_df[1].Revised_Credit_Terms = revised
  /\ contact_df[1].High_Value = "Yes"
  /\ contact_df[1].Risk = "Normal"
  /\ Len(result.table) = 1
  /\ result.table[1].Reduction_in_Term_Days = reduction
  /\ result.table[1].Revised_Credit_Terms = revised

(* C10 as stated: the scenario gives 2 delays, 2.78 per invoice, a    *)
(* late impact of 5.56, relative impact 100.00, a reduction of 10     *)
(* days, revised terms of 20 days, high value Yes and Risk Normal.    *)
AcmeReducedByTenDays == (runs > 0 /\ AcmeScenario) => AcmeAggregates(10, 20)

(* C10 amended: the scenario gives 2 delays, 2.78 per invoice, a late *)
(* impact of 5.56, relative impact 100.00, a reduction of 5 days      *)
(* (ceil((100 * 2 / 100) / 5) * 5), revised terms of 25 days, high    *)
(* value Yes and Risk Normal.                                         *)
AcmeReducedByFiveDays == (runs > 0 /\ AcmeScenario) => AcmeAggregates(5, 25)

\* the scenario has been processed
AcmeProcessed == runs > 0 /\ AcmeScenario /\ result.kind = "return"

(* ------------------------------------------------------------------ *)
(* The records of the upload that reach the aggregation, in order     *)
(* ------------------------------------------------------------------ *)
WithPaymentDate == LET Keep(r) == Parseable(r["Last_Payment_Date"]) IN SelectSeq(uploaded_file.rows, Keep)

Survivors == SelectSeq(uploaded_file.rows, Survives)

NoDueDate(r) == ~Parseable(r["Due_Date"])

\* the records S went on as the rows of the local df, in the same order
WentOn(S) ==
  /\ Len(invoices) = Len(S)
  /\ \A i \in 1..Len(S) :
       /\ invoices[i].Contact = S[i]["Contact"]
       /\ invoices[i].Invoice_Total = S[i]["Invoice_Total"]

(* ------------------------------------------------------------------ *)
(* C11: without a Status column the Paid filter is skipped and raises *)
(* nothing: the call never fails with the no-paid-invoices error, and *)
(* it goes on with every record of the input (each record that has a  *)
(* payment date reaches the lateness step, in the input's order).     *)
(* ------------------------------------------------------------------ *)
NoStatusColumnSkipsPaidFilter ==
  (runs > 0 /\ ~UploadHasStatus) =>
    /\ result.msg # NoPaidMessage
    /\ WentOn(WithPaymentDate)
    /\ invoices # <<>> => result.kind = "return"

\* a sheet without a Status column whose records all went on to the
\* lateness step and gave a table
NoStatusSheetProcessed ==
  /\ runs > 0
  /\ ~UploadHasStatus
  /\ uploaded_file.rows # <<>>
  /\ Len(invoices) = Len(uploaded_file.rows)
  /\ result.kind = "return"

(* ------------------------------------------------------------------ *)
(* What the records S of contact c add up to                          *)
(* ------------------------------------------------------------------ *)
TotalOf(S, c) ==
  SumSeq([k \in 1..Len(S) |-> IF S[k]["Contact"] = c THEN S[k]["Invoice_Total"] ELSE 0])

DelaysOf(S, c) ==
  SumSeq([k \in 1..Len(S) |-> IF S[k]["Contact"] = c /\ PaidLate(S[k]) THEN 1 ELSE 0])

\* the late impact, in cents, of the records paid after their due date
ImpactOf(S, c, cfg) ==
  SumSeq([k \in 1..Len(S) |->
            IF S[k]["Contact"] = c /\ PaidLate(S[k])
            THEN RoundHalfEven((S[k]["Last_Payment_Date"].d - S[k]["Due_Date"].d)
                                 * S[k]["Invoice_Total"] * cfg.wacc,
                               cfg.days_in_year)
            ELSE 0])

\* the late impact the call gave to the records that have a due date
DatedImpactOf(S, c) ==
  SumSeq([k \in 1..Len(S) |->
            IF S[k]["Contact"] = c /\ ~NoDueDate(S[k]) THEN invoices[k].Late_Impact ELSE 0])

(* ------------------------------------------------------------------ *)
(* C12: a Paid record with a payment date but without a parseable     *)
(* due date is kept and is not late: the call returns a table, the    *)
(* record counts in its contact's Total_Invoice_Sum and adds nothing  *)
(* to Number_of_Delays and to Late_Payment_Impact_Amount.             *)
(* ------------------------------------------------------------------ *)
KeptAndNotLate(S) ==
  (\E k \in 1..Len(S) : NoDueDate(S[k])) =>
    /\ result.kind = "return"
    /\ WentOn(S)
    /\ \A k \in 1..Len(S) :
         NoDueDate(S[k]) =>
           /\ invoices[k].Is_Late = FALSE
           /\ invoices[k].Days_Late = 0
           /\ invoices[k].Late_Impact = 0
           /\ \E j \in 1..Len(contact_df) :
                /\ contact_df[j].Contact = S[k]["Contact"]
                /\ contact_df[j].Total_Invoice_Sum = TotalOf(S, S[k]["Contact"])
                /\ contact_df[j].Number_of_Delays = DelaysOf(S, S[k]["Contact"])
                /\ contact_df[j].Late_Payment_Impact_Amount = DatedImpactOf(S, S[k]["Contact"])

NoDueDateKeptAndNotLate == runs > 0 => KeptAndNotLate(Survivors)

\* a contact with a late record and a record without due date: one delay,
\* both totals
NoDueDateNextToLateRecord ==
  /\ runs > 0
  /\ result.kind = "return"
  /\ Len(Survivors) = 2
  /\ NoDueDate(Survivors[1]) /\ PaidLate(Survivors[2])
  /\ Len(contact_df) = 1
  /\ contact_df[1].Number_of_Delays = 1
  /\ contact_df[1].Late_Payment_Impact_Amount > 0
  /\ contact_df[1].Total_Invoice_Sum = Survivors[1]["Invoice_Total"] + Survivors[2]["Invoice_Total"]

(* ------------------------------------------------------------------ *)
(* C13: the output has exactly one row for each contact that has a    *)
(* surviving record (Paid, with a payment date) and no other row;     *)
(* only surviving records count in Total_Invoice_Sum,                 *)
(* Late_Payment_Impact_Amount and Number_of_Delays, and               *)
(* Number_of_Delays is the number of the contact's surviving records  *)
(* paid after the due date.                                           *)
(* ------------------------------------------------------------------ *)
ContactsOf(S) == {S[k]["Contact"] : k \in 1..Len(S)}

OneRowPerContactOf(S) ==
  /\ Len(result.table) = Cardinality(ContactsOf(S))
  /\ {result.table[i].Contact : i \in 1..Len(result.table)} = ContactsOf(S)
  /\ Len(contact_df) = Len(result.table)
  /\ \A i \in 1..Len(contact_df) :
       /\ contact_df[i].Contact = result.table[i].Contact
       /\ contact_df[i].Total_Invoice_Sum = TotalOf(S, contact_df[i].Contact)
       /\ contact_df[i].Late_Payment_Impact_Amount = ImpactOf(S, contact_df[i].Contact, config)
       /\ contact_df[i].Number_of_Delays = DelaysOf(S, contact_df[i].Contact)
       /\ result.table[i].Number_of_Delays = DelaysOf(S, contact_df[i].Contact)

OneRowPerSurvivingContact ==
  (runs > 0 /\ result.kind = "return") => OneRowPerContactOf(Survivors)

\* a contact with one late surviving record, and another contact whose
\* record does not survive and which has no row
DroppedRecordsDoNotCount ==
  /\ runs > 0
  /\ UploadHasStatus
  /\ result.kind = "return"
  /\ Len(result.table) = 1
  /\ result.table[1].Number_of_Delays = 1
  /\ \E r \in UploadRows : ~Survives(r) /\ r["Contact"] # result.table[1].Contact
  /\ contact_df[1].Total_Invoice_Sum = TotalOf(Survivors, result.table[1].Contact)

====
